---- MODULE Spec2Model ----
(***************************************************************************)
(* Model of src/src/FreeFallSimulation.tsx: the FreeFallSimulation React   *)
(* component (parameters, simulation state, history, trail, page cursors,  *)
(* the tick-driver interval and the bounce interval).                      *)
(*                                                                         *)
(* Numbers.  The program computes in IEEE doubles; the model computes the  *)
(* same expressions exactly, in fixed point:                               *)
(*   initialVelocity  in tenths of m/s       (the input's step is 0.1)     *)
(*   initialHeight    in whole metres        (the input's step is 1)       *)
(*   mass             in tenths of kg        (the input's step is 0.1)     *)
(*   gravity          in hundredths of m/s^2 (the input's step is 0.01)    *)
(*   time             in ticks of 0.1 s                                    *)
(*   heights, displacements, velocities, pixels: in 1/UNIT of their unit   *)
(*   record fields    in the decimals toFixed keeps (1/100, mass 1/10)     *)
(* UNIT = 20000 makes v0*t + 0.5*g*t*t an integer for every tick.          *)
(*                                                                         *)
(* Scheduling.  Every handler and every timer callback runs to completion  *)
(* on the single UI thread and React commits the batched state updates     *)
(* before the next one runs, so each is one atomic action.  The two        *)
(* intervals (100 ms and 150 ms) are interleaved freely.                   *)
(*                                                                         *)
(* lastOp and wasRunning are history variables: they record which handler  *)
(* or callback ran last and whether the driver was running when it was     *)
(* entered; nothing in the program reads them.                             *)
(***************************************************************************)
EXTENDS Integers, Sequences, FiniteSets, TLC

VARIABLES
    initialVelocity,       \* useState(0), tenths of m/s
    initialHeight,         \* useState(50), metres
    mass,                  \* useState(1), tenths of kg
    planet,                \* useState('earth')
    customGravity,         \* useState(9.81), hundredths of m/s^2
    simulationState,       \* useState<SimulationState>
    dataHistory,           \* useState<SimulationData[]>
    trail,                 \* useState<number[]>
    mainTableCurrentPage,  \* useState(1)
    modalCurrentPage,      \* useState(1)
    intervalRef,           \* useRef<number | null>: the tick timer's handle
    tickTimers,            \* live intervals created by startSimulation: id -> closure
    bounceTimers,          \* live intervals created by bounceEffect: id -> closure
    nextTimerId,           \* the handle the next setInterval returns
    mounted,               \* "constructed", "mounted" or "unmounted"
    lastOp,                \* the handler or callback that ran last
    wasRunning             \* simulationState.isRunning when it was entered

vars == <<initialVelocity, initialHeight, mass, planet, customGravity,
          simulationState, dataHistory, trail, mainTableCurrentPage,
          modalCurrentPage, intervalRef, tickTimers, bounceTimers,
          nextTimerId, mounted, lastOp, wasRunning>>

params == <<initialVelocity, initialHeight, mass, planet, customGravity>>
cursors == <<mainTableCurrentPage, modalCurrentPage>>
timerVars == <<intervalRef, tickTimers, bounceTimers, nextTimerId>>

---------------------------------------------------------------------------
(* Bounds and input sets *)

\* setInterval handles are 1, 2, ...; a specification stops taking
\* startSimulation once fewer than two handles (the run's and its bounce's)
\* are left below its bound.
MaxTimerId == 4
MaxLongTimerId == 3
MaxExportTimerId == 2
MaxTallTimerId == 2

\* Under Spec a run is followed for at most MaxTicks ticks (a run from
\* 1 m ends within them); LongSpec and LiveSpec follow every run to the ground.
MaxTicks == 6

\* Values typed into the inputs.
Velocities == {-10, 0}
Heights == {0, 1}
Masses == {10, 70}

\* A height whose initial ball position is above the canvas (480 px at 4 px/m).
TallHeights == {120}
CustomGravities == {2000}
PlanetChoices == {"earth", "custom"}

---------------------------------------------------------------------------
(* Program constants *)

SCALE == 4
CANVAS_HEIGHT == 480
itemsPerPage == 20
TrailLength == 30
BounceSteps == 6
BounceOffset == 10
GroundInset == 4
MaxBallRadius == 20
BaseBallRadius == 8

UNIT == 200 * 100
EPSILON == UNIT \div 1000
Null == 0

PLANETS == [earth |-> 981, moon |-> 162, mars |-> 371, custom |-> 981]
PlanetKeys == {"earth", "moon", "mars", "custom"}

---------------------------------------------------------------------------
(* Pure helpers *)

Min(a, b) == IF a <= b THEN a ELSE b
Max(a, b) == IF a >= b THEN a ELSE b

\* x / d rounded to the nearest integer, halves away from zero.
RoundDiv(x, d) == IF x >= 0 THEN (2 * x + d) \div (2 * d)
                            ELSE -((2 * (-x) + d) \div (2 * d))

\* parseFloat(x.toFixed(2)) of a quantity held in 1/UNIT: hundredths.
ToFixed2(x) == RoundDiv(x, UNIT \div 100)

\* parseFloat(gravity.toFixed(2)) of a gravity held in hundredths.
GravityToFixed2(g) == RoundDiv(g * 100, 100)

\* parseFloat(mass.toFixed(1)) of a mass held in tenths.
MassToFixed1(m) == RoundDiv(m * 10, 10)

\* const gravity = planet === 'custom' ? customGravity : PLANETS[planet].gravity
Gravity(p, cg) == IF p = "custom" THEN cg ELSE PLANETS[p]

\* const ballRadius = Math.min(20, 8 + mass * 2), in 1/UNIT px
BallRadius(m) == Min(MaxBallRadius * UNIT, BaseBallRadius * UNIT + m * 2 * (UNIT \div 10))

\* CANVAS_HEIGHT - ballRadius - 4
GroundLevel(r) == CANVAS_HEIGHT * UNIT - r - GroundInset * UNIT

\* calculateInitialBallY
CalculateInitialBallY(h, m) ==
    LET r == BallRadius(m)
        y == GroundLevel(r) - h * UNIT * SCALE
    IN Max(r, y)

\* velocity = initialVelocity + gravity * time
Velocity(v0, g, n) == v0 * (UNIT \div 10) + g * n * (UNIT \div 1000)

\* Mutant of Displacement: the gravity term grows with time, not its square.
DisplacementLinear(v0, g, n) == v0 * n * (UNIT \div 100) + g * n * (UNIT \div 20000)

\* displacement = initialVelocity * time + 0.5 * gravity * time * time
Displacement(v0, g, n) == v0 * n * (UNIT \div 100) + g * n * n * (UNIT \div 20000)

\* currentHeight = Math.max(0, initialHeight - displacement)
CurrentHeight(h0, d) == Max(0, h0 * UNIT - d)

\* actualBallY = Math.min(initialBallY + displacement * SCALE, CANVAS_HEIGHT - ballRadius - 4)
ActualBallY(y0, d, r) == Min(y0 + d * SCALE, GroundLevel(r))

\* Mutants of GroundReached: a threshold no height is below, and one of 1 m.
GroundReachedNever(h) == h < 0
GroundReachedEarly(h) == h <= UNIT

\* if (currentHeight <= 0.001)
GroundReached(h) == h <= EPSILON

\* Mutant of AppendData: the record goes to the front.
AppendDataFront(prev, newData) == <<newData>> \o prev

\* setDataHistory(prev => [...prev, newData])
AppendData(prev, newData) == Append(prev, newData)

\* bounceCount % 2 === 0 ? CANVAS_HEIGHT - ballRadius - 4 - 10 : CANVAS_HEIGHT - ballRadius - 4
BounceBallY(bounceCount, r) ==
    IF bounceCount % 2 = 0 THEN GroundLevel(r) - BounceOffset * UNIT ELSE GroundLevel(r)

\* Mutant of BounceDone: one firing too many.
BounceDoneLate(bounceCount) == bounceCount > BounceSteps

\* if (bounceCount >= 6)
BounceDone(bounceCount) == bounceCount >= BounceSteps

\* Mutant of PushTrail: the newest entries are the ones dropped.
PushTrailKeepOldest(t, y) ==
    LET newTrail == Append(t, y)
    IN IF Len(newTrail) > TrailLength THEN SubSeq(newTrail, 1, TrailLength) ELSE newTrail

\* newTrail.length > 30 ? newTrail.slice(-30) : newTrail
PushTrail(t, y) ==
    LET newTrail == Append(t, y)
    IN IF Len(newTrail) > TrailLength
       THEN SubSeq(newTrail, Len(newTrail) - TrailLength + 1, Len(newTrail))
       ELSE newTrail

\* Math.ceil(dataHistory.length / itemsPerPage)
TotalPages(len) == (len + itemsPerPage - 1) \div itemsPerPage

\* Mutant of NewData: the recorded velocity is reduced by the mass.
NewDataDrag(c, n) ==
    LET d == Displacement(c.initialVelocity, c.gravity, n)
    IN [time         |-> RoundDiv(n * 100, 10),
        height       |-> ToFixed2(CurrentHeight(c.initialHeight, d)),
        velocity     |-> ToFixed2(Velocity(c.initialVelocity, c.gravity, n)) - c.mass,
        acceleration |-> GravityToFixed2(c.gravity),
        displacement |-> ToFixed2(d),
        mass         |-> MassToFixed1(c.mass)]

\* The record the n-th tick of a run appends.
NewData(c, n) ==
    LET d == Displacement(c.initialVelocity, c.gravity, n)
    IN [time         |-> RoundDiv(n * 100, 10),
        height       |-> ToFixed2(CurrentHeight(c.initialHeight, d)),
        velocity     |-> ToFixed2(Velocity(c.initialVelocity, c.gravity, n)),
        acceleration |-> GravityToFixed2(c.gravity),
        displacement |-> ToFixed2(d),
        mass         |-> MassToFixed1(c.mass)]

\* f without the key k.
Without(f, k) == [x \in DOMAIN f \ {k} |-> f[x]]

\* f with the key k bound to v.
With(f, k, v) == [x \in DOMAIN f \cup {k} |-> IF x = k THEN v ELSE f[x]]

NoTimers == [x \in {} |-> 0]

---------------------------------------------------------------------------
(* Initial state: the useState / useRef initial values *)

Init ==
    /\ initialVelocity = 0
    /\ initialHeight = 50
    /\ mass = 10
    /\ planet = "earth"
    /\ customGravity = 981
    /\ simulationState = [isRunning |-> FALSE, time |-> 0,
                          currentHeight |-> 50 * UNIT, currentVelocity |-> 0,
                          displacement |-> 0, ballY |-> 0]
    /\ dataHistory = <<>>
    /\ trail = <<>>
    /\ mainTableCurrentPage = 1
    /\ modalCurrentPage = 1
    /\ intervalRef = Null
    /\ tickTimers = NoTimers
    /\ bounceTimers = NoTimers
    /\ nextTimerId = 1
    /\ mounted = "constructed"
    /\ lastOp = "init"
    /\ wasRunning = FALSE

---------------------------------------------------------------------------
(* Timers and state updates *)

\* clearInterval(id) on one table of live intervals.
ClearInterval(timers, id) ==
    IF id \in DOMAIN timers THEN Without(timers, id) ELSE timers

\* Mutant of StopSimulationTimers: the interval is not cleared.
StopSimulationTimersLeak(timers, ref) == timers

\* stopSimulation, lines 252-255: if (intervalRef.current) clearInterval(...)
StopSimulationTimers(timers, ref) ==
    IF ref # Null THEN ClearInterval(timers, ref) ELSE timers

\* stopSimulation, line 254: intervalRef.current = null (null already otherwise)
StopSimulationRef(ref) == IF ref # Null THEN Null ELSE ref

\* React drops the state updates of a component that is no longer mounted.
Commit(old, new) == IF mounted = "mounted" THEN new ELSE old

\* The closure of the interval callback startSimulation creates.
TickClosure ==
    [time            |-> 0,
     initialVelocity |-> initialVelocity,
     initialHeight   |-> initialHeight,
     gravity         |-> Gravity(planet, customGravity),
     mass            |-> mass,
     ballRadius      |-> BallRadius(mass),
     initialBallY    |-> CalculateInitialBallY(initialHeight, mass)]

\* The closure of the interval callback bounceEffect creates.
BounceClosure(r) == [bounceCount |-> 0, ballRadius |-> r]

\* Mutant of FreshState: isRunning is never set.
FreshStateNotRunning(running) ==
    [isRunning       |-> FALSE,
     time            |-> 0,
     currentHeight   |-> initialHeight * UNIT,
     currentVelocity |-> initialVelocity * (UNIT \div 10),
     displacement    |-> 0,
     ballY           |-> CalculateInitialBallY(initialHeight, mass)]

\* The state restartSimulation and startSimulation set, lines 185-192 and 266-273.
FreshState(running) ==
    [isRunning       |-> running,
     time            |-> 0,
     currentHeight   |-> initialHeight * UNIT,
     currentVelocity |-> initialVelocity * (UNIT \div 10),
     displacement    |-> 0,
     ballY           |-> CalculateInitialBallY(initialHeight, mass)]

\* const mainStartIndex = (mainTableCurrentPage - 1) * itemsPerPage
StartIndex(page) == (page - 1) * itemsPerPage

\* Mutant of EndIndex: a page one record short.
EndIndexShort(startIndex) == startIndex + itemsPerPage - 1

\* const mainEndIndex = mainStartIndex + itemsPerPage
EndIndex(startIndex) == startIndex + itemsPerPage

\* Array.prototype.slice(start, end) for 0 <= start <= end: the elements with
\* the 0-based indexes start .. min(end, length) - 1, none if start >= length.
Slice(arr, start, end) == SubSeq(arr, start + 1, Min(end, Len(arr)))

\* const mainCurrentData = dataHistory.slice(mainStartIndex, mainEndIndex)
CurrentData(history, page) ==
    Slice(history, StartIndex(page), EndIndex(StartIndex(page)))

\* Text.  A string is the sequence of its pieces; digits, the sign, '.', ',',
\* ';' and the line break are pieces of their own, a header is one piece
\* (letters outside ASCII written with their base letters).
Digits == <<"0", "1", "2", "3", "4", "5", "6", "7", "8", "9">>

RECURSIVE NatToString(_)
NatToString(n) ==
    IF n < 10 THEN <<Digits[n + 1]>>
              ELSE NatToString(n \div 10) \o <<Digits[(n % 10) + 1]>>

\* The decimals of f / scale, 0 < f < scale, as toString prints them: none
\* after the last one that is not 0.
RECURSIVE FracDigits(_, _)
FracDigits(f, scale) ==
    IF f = 0 THEN <<>>
             ELSE <<Digits[((f * 10) \div scale) + 1]>> \o FracDigits((f * 10) % scale, scale)

\* Number.prototype.toString of x / scale, a number of at most two decimals.
NumberToString(x, scale) ==
    LET a == IF x < 0 THEN -x ELSE x
    IN (IF x < 0 THEN <<"-">> ELSE <<>>)
       \o NatToString(a \div scale)
       \o (IF a % scale = 0 THEN <<>> ELSE <<".">> \o FracDigits(a % scale, scale))

\* String.prototype.replace(from, to) with a string pattern: the first
\* occurrence only.
Replace(str, from, to) ==
    IF \E i \in 1 .. Len(str) : str[i] = from
    THEN LET k == CHOOSE i \in 1 .. Len(str) :
                     str[i] = from /\ \A j \in 1 .. i - 1 : str[j] # from
         IN [str EXCEPT ![k] = to]
    ELSE str

\* Array.prototype.join(sep) of an array of strings.
RECURSIVE Join(_, _)
Join(strs, sep) ==
    IF Len(strs) = 0 THEN <<>>
    ELSE IF Len(strs) = 1 THEN strs[1]
    ELSE strs[1] \o <<sep>> \o Join(Tail(strs), sep)

headers ==
    << <<"Zaman (s)">>, <<"Yukseklik (m)">>, <<"Hiz (m/s)">>, <<"Ivme (m/s^2)">>,
       <<"Yer Degistirme (m)">>, <<"Kutle (kg)">> >>

\* Mutant of CsvRow: the mass column is left out.
CsvRowNoMass(row) ==
    Join(<< Replace(NumberToString(row.time, 100), ".", ","),
            Replace(NumberToString(row.height, 100), ".", ","),
            Replace(NumberToString(row.velocity, 100), ".", ","),
            Replace(NumberToString(row.acceleration, 100), ".", ","),
            Replace(NumberToString(row.displacement, 100), ".", ",") >>, ";")

\* row => [row.time.toString().replace('.', ','), ...].join(';')
CsvRow(row) ==
    Join(<< Replace(NumberToString(row.time, 100), ".", ","),
            Replace(NumberToString(row.height, 100), ".", ","),
            Replace(NumberToString(row.velocity, 100), ".", ","),
            Replace(NumberToString(row.acceleration, 100), ".", ","),
            Replace(NumberToString(row.displacement, 100), ".", ","),
            Replace(NumberToString(row.mass, 10), ".", ",") >>, ";")

\* [headers.join(';'), ...dataHistory.map(row => ...)].join('\n')
CsvContent(history) ==
    Join(<<Join(headers, ";")>> \o [i \in 1 .. Len(history) |-> CsvRow(history[i])], "\n")

\* What downloadCSV hands to the browser: nothing for an empty history, else
\* the Blob of the text.
Download(history) ==
    IF Len(history) = 0
    THEN [created |-> FALSE, content |-> <<>>]
    ELSE [created |-> TRUE, content |-> CsvContent(history)]

\* Every handler records itself and whether the driver was running.
Entered(op) ==
    /\ lastOp' = op
    /\ wasRunning' = simulationState.isRunning

---------------------------------------------------------------------------
(* Handlers and callbacks *)

\* Mutant of ResetEffects: the page cursors are not reset.
ResetEffectsKeepsCursors ==
    /\ tickTimers' = StopSimulationTimers(tickTimers, intervalRef)
    /\ bounceTimers' = StopSimulationTimers(bounceTimers, intervalRef)
    /\ intervalRef' = StopSimulationRef(intervalRef)
    /\ simulationState' = FreshState(FALSE)
    /\ dataHistory' = <<>>
    /\ trail' = <<>>
    /\ UNCHANGED <<params, cursors, nextTimerId>>

\* restartSimulation, lines 263-279: stopSimulation(), then the resets.
ResetEffects ==
    /\ tickTimers' = StopSimulationTimers(tickTimers, intervalRef)
    /\ bounceTimers' = StopSimulationTimers(bounceTimers, intervalRef)
    /\ intervalRef' = StopSimulationRef(intervalRef)
    /\ simulationState' = FreshState(FALSE)
    /\ dataHistory' = <<>>
    /\ trail' = <<>>
    /\ mainTableCurrentPage' = 1
    /\ modalCurrentPage' = 1
    /\ UNCHANGED <<params, nextTimerId>>

\* useEffect(() => { restartSimulation(); ... }, [])
Mount ==
    /\ mounted = "constructed"
    /\ mounted' = "mounted"
    /\ ResetEffects
    /\ Entered("mount")

restartSimulation ==
    /\ mounted = "mounted"
    /\ ResetEffects
    /\ Entered("restart")
    /\ UNCHANGED mounted

\* Mutant of stopSimulation: the stop also rewinds the simulation state.
stopSimulationRewinds ==
    /\ mounted = "mounted"
    /\ tickTimers' = StopSimulationTimers(tickTimers, intervalRef)
    /\ bounceTimers' = StopSimulationTimers(bounceTimers, intervalRef)
    /\ intervalRef' = StopSimulationRef(intervalRef)
    /\ simulationState' = FreshState(FALSE)
    /\ Entered("stop")
    /\ UNCHANGED <<params, dataHistory, trail, cursors, nextTimerId, mounted>>

stopSimulation ==
    /\ mounted = "mounted"
    /\ tickTimers' = StopSimulationTimers(tickTimers, intervalRef)
    /\ bounceTimers' = StopSimulationTimers(bounceTimers, intervalRef)
    /\ intervalRef' = StopSimulationRef(intervalRef)
    /\ simulationState' = [simulationState EXCEPT !.isRunning = FALSE]
    /\ Entered("stop")
    /\ UNCHANGED <<params, dataHistory, trail, cursors, nextTimerId, mounted>>

\* Mutant of StartGuard: no early return.
StartGuardMissing(s) == FALSE

\* if (simulationState.isRunning) return;
StartGuard(s) == s.isRunning

\* Mutant of startSimulation: a start resumes, keeping the state, the
\* history, the trail and the cursors.
startSimulationResumes ==
    /\ mounted = "mounted"
    /\ Entered("start")
    /\ IF StartGuard(simulationState)
       THEN UNCHANGED <<params, simulationState, dataHistory, trail, cursors,
                        timerVars, mounted>>
       ELSE /\ simulationState' = [simulationState EXCEPT !.isRunning = TRUE]
            /\ intervalRef' = nextTimerId
            /\ tickTimers' = With(tickTimers, nextTimerId, TickClosure)
            /\ nextTimerId' = nextTimerId + 1
            /\ UNCHANGED <<params, dataHistory, trail, cursors, bounceTimers, mounted>>

startSimulation ==
    /\ mounted = "mounted"
    /\ Entered("start")
    /\ IF StartGuard(simulationState)
       THEN UNCHANGED <<params, simulationState, dataHistory, trail, cursors,
                        timerVars, mounted>>
       ELSE /\ simulationState' = FreshState(TRUE)
            /\ dataHistory' = <<>>
            /\ trail' = <<>>
            /\ mainTableCurrentPage' = 1
            /\ modalCurrentPage' = 1
            /\ intervalRef' = nextTimerId
            /\ tickTimers' = With(tickTimers, nextTimerId, TickClosure)
            /\ nextTimerId' = nextTimerId + 1
            /\ UNCHANGED <<params, bounceTimers, mounted>>

\* The interval callback of startSimulation, lines 201-240, for the live timer id.
Tick(id) ==
    /\ id \in DOMAIN tickTimers
    /\ LET c == tickTimers[id]
           time == c.time + 1
           velocity == Velocity(c.initialVelocity, c.gravity, time)
           displacement == Displacement(c.initialVelocity, c.gravity, time)
           currentHeight == CurrentHeight(c.initialHeight, displacement)
           actualBallY == ActualBallY(c.initialBallY, displacement, c.ballRadius)
           ground == GroundReached(currentHeight)
           ticked == With(tickTimers, id, [c EXCEPT !.time = time])
       IN /\ simulationState' = Commit(simulationState,
                 [isRunning       |-> IF ground THEN FALSE ELSE simulationState.isRunning,
                  time            |-> time,
                  currentHeight   |-> currentHeight,
                  currentVelocity |-> velocity,
                  displacement    |-> displacement,
                  ballY           |-> actualBallY])
          /\ trail' = Commit(trail, PushTrail(trail, actualBallY))
          /\ dataHistory' = Commit(dataHistory, AppendData(dataHistory, NewData(c, time)))
          /\ IF ground
             THEN \* stopSimulation(); bounceEffect();
                  /\ tickTimers' = StopSimulationTimers(ticked, intervalRef)
                  /\ bounceTimers' = With(StopSimulationTimers(bounceTimers, intervalRef),
                                          nextTimerId, BounceClosure(c.ballRadius))
                  /\ intervalRef' = StopSimulationRef(intervalRef)
                  /\ nextTimerId' = nextTimerId + 1
             ELSE /\ tickTimers' = ticked
                  /\ UNCHANGED <<bounceTimers, intervalRef, nextTimerId>>
    /\ Entered("tick")
    /\ UNCHANGED <<params, cursors, mounted>>

\* The interval callback of bounceEffect, lines 283-299, for the live timer id.
Bounce(id) ==
    /\ id \in DOMAIN bounceTimers
    /\ LET c == bounceTimers[id]
           bounceCount == c.bounceCount + 1
       IN IF BounceDone(bounceCount)
          THEN /\ bounceTimers' = ClearInterval(bounceTimers, id)
               /\ simulationState' = Commit(simulationState,
                      [simulationState EXCEPT !.ballY = GroundLevel(c.ballRadius)])
          ELSE /\ bounceTimers' = With(bounceTimers, id, [c EXCEPT !.bounceCount = bounceCount])
               /\ simulationState' = Commit(simulationState,
                      [simulationState EXCEPT !.ballY = BounceBallY(c.bounceCount, c.ballRadius)])
    /\ Entered("bounce")
    /\ UNCHANGED <<params, dataHistory, trail, cursors, intervalRef, tickTimers,
                   nextTimerId, mounted>>

\* The cleanup of the mount effect, lines 493-497.
Unmount ==
    /\ mounted = "mounted"
    /\ mounted' = "unmounted"
    /\ tickTimers' = StopSimulationTimers(tickTimers, intervalRef)
    /\ bounceTimers' = StopSimulationTimers(bounceTimers, intervalRef)
    /\ Entered("unmount")
    /\ UNCHANGED <<params, simulationState, dataHistory, trail, cursors,
                   intervalRef, nextTimerId>>

\* The inputs, lines 536-607, each disabled while simulationState.isRunning.
InputsEnabled == mounted = "mounted" /\ ~simulationState.isRunning

\* setInitialVelocity(parseFloat(e.target.value) || 0)
SetInitialVelocity(v) ==
    /\ InputsEnabled
    /\ initialVelocity' = v
    /\ Entered("edit")
    /\ UNCHANGED <<initialHeight, mass, planet, customGravity, simulationState,
                   dataHistory, trail, cursors, timerVars, mounted>>

\* setInitialHeight(Math.max(1, parseFloat(e.target.value) || 1))
SetInitialHeight(h) ==
    /\ InputsEnabled
    /\ initialHeight' = Max(1, h)
    /\ Entered("edit")
    /\ UNCHANGED <<initialVelocity, mass, planet, customGravity, simulationState,
                   dataHistory, trail, cursors, timerVars, mounted>>

\* setMass(Math.max(0.1, parseFloat(e.target.value) || 0.1))
SetMass(m) ==
    /\ InputsEnabled
    /\ mass' = Max(1, m)
    /\ Entered("edit")
    /\ UNCHANGED <<initialVelocity, initialHeight, planet, customGravity,
                   simulationState, dataHistory, trail, cursors, timerVars, mounted>>

\* setPlanet(e.target.value)
SetPlanet(p) ==
    /\ InputsEnabled
    /\ planet' = p
    /\ Entered("edit")
    /\ UNCHANGED <<initialVelocity, initialHeight, mass, customGravity,
                   simulationState, dataHistory, trail, cursors, timerVars, mounted>>

\* setCustomGravity(Math.max(0.1, parseFloat(e.target.value) || 0.1)); the
\* input is rendered only when planet === 'custom'.
SetCustomGravity(g) ==
    /\ InputsEnabled
    /\ planet = "custom"
    /\ customGravity' = Max(10, g)
    /\ Entered("edit")
    /\ UNCHANGED <<initialVelocity, initialHeight, mass, planet, simulationState,
                   dataHistory, trail, cursors, timerVars, mounted>>

\* Mutants of PageInRange: no upper test, and no lower test.
PageInRangeNoUpper(page, total) == page >= 1
PageInRangeNoLower(page, total) == page <= total

\* if (page >= 1 && page <= mainTotalPages)
PageInRange(page, total) == page >= 1 /\ page <= total

handleMainTablePageChange(page) ==
    /\ mounted = "mounted"
    /\ mainTableCurrentPage' =
          IF PageInRange(page, TotalPages(Len(dataHistory)))
          THEN page ELSE mainTableCurrentPage
    /\ Entered("mainPage")
    /\ UNCHANGED <<params, simulationState, dataHistory, trail, modalCurrentPage,
                   timerVars, mounted>>

\* Mutant of handleModalPageChange: the accepted page goes to both cursors.
handleModalPageChangeBoth(page) ==
    /\ mounted = "mounted"
    /\ modalCurrentPage' =
          IF PageInRange(page, TotalPages(Len(dataHistory)))
          THEN page ELSE modalCurrentPage
    /\ mainTableCurrentPage' =
          IF PageInRange(page, TotalPages(Len(dataHistory)))
          THEN page ELSE mainTableCurrentPage
    /\ Entered("modalPage")
    /\ UNCHANGED <<params, simulationState, dataHistory, trail, timerVars, mounted>>

handleModalPageChange(page) ==
    /\ mounted = "mounted"
    /\ modalCurrentPage' =
          IF PageInRange(page, TotalPages(Len(dataHistory)))
          THEN page ELSE modalCurrentPage
    /\ Entered("modalPage")
    /\ UNCHANGED <<params, simulationState, dataHistory, trail, mainTableCurrentPage,
                   timerVars, mounted>>

\* downloadCSV, lines 302-323: it sets no state; the document it produces is
\* Download(dataHistory).  Its buttons are disabled while the history is empty;
\* the function's own first line answers a call made then.
downloadCSV ==
    /\ mounted = "mounted"
    /\ Entered("download")
    /\ UNCHANGED <<params, simulationState, dataHistory, trail, cursors, timerVars,
                   mounted>>

\* The pages a pagination button can request: previous, next, first, last, a number.
PageRequests == 0 .. TotalPages(Len(dataHistory)) + 1

---------------------------------------------------------------------------
(* Specifications *)

HandlesLeft(max) == nextTimerId + 1 <= max

\* The start/stop button (line 615) calls stopSimulation while isRunning and
\* startSimulation otherwise; startSimulation is also taken while isRunning,
\* the call its early return answers.

\* Every handler and callback that sets state, each run followed for at most
\* MaxTicks ticks.
Next ==
    \/ Mount
    \/ HandlesLeft(MaxTimerId) /\ startSimulation
    \/ simulationState.isRunning /\ stopSimulation
    \/ restartSimulation
    \/ \E id \in DOMAIN tickTimers : tickTimers[id].time < MaxTicks /\ Tick(id)
    \/ \E id \in DOMAIN bounceTimers : Bounce(id)
    \/ Unmount
    \/ \E v \in Velocities : SetInitialVelocity(v)
    \/ \E h \in Heights : SetInitialHeight(h)
    \/ \E m \in Masses : SetMass(m)
    \/ \E p \in PlanetChoices : SetPlanet(p)
    \/ \E g \in CustomGravities : SetCustomGravity(g)
    \/ \E page \in PageRequests : handleMainTablePageChange(page)
    \/ \E page \in PageRequests : handleModalPageChange(page)

Spec == Init /\ [][Next]_vars

\* Runs followed to the ground (32 ticks from the initial 50 m), with the
\* velocity, height and mass inputs and both tables' pagination.
LongNext ==
    \/ Mount
    \/ HandlesLeft(MaxLongTimerId) /\ startSimulation
    \/ simulationState.isRunning /\ stopSimulation
    \/ restartSimulation
    \/ \E id \in DOMAIN tickTimers : Tick(id)
    \/ \E id \in DOMAIN bounceTimers : Bounce(id)
    \/ \E v \in Velocities : SetInitialVelocity(v)
    \/ \E h \in Heights : SetInitialHeight(h)
    \/ \E m \in Masses : SetMass(m)
    \/ \E page \in PageRequests : handleMainTablePageChange(page)
    \/ \E page \in PageRequests : handleModalPageChange(page)

LongSpec == Init /\ [][LongNext]_vars

\* The export: runs followed to the ground with the velocity, height and mass
\* inputs, and downloadCSV at any moment.
ExportNext ==
    \/ Mount
    \/ HandlesLeft(MaxExportTimerId) /\ startSimulation
    \/ simulationState.isRunning /\ stopSimulation
    \/ restartSimulation
    \/ \E id \in DOMAIN tickTimers : Tick(id)
    \/ \E id \in DOMAIN bounceTimers : Bounce(id)
    \/ \E v \in Velocities : SetInitialVelocity(v)
    \/ \E h \in Heights : SetInitialHeight(h)
    \/ \E m \in Masses : SetMass(m)
    \/ downloadCSV

ExportSpec == Init /\ [][ExportNext]_vars

\* Runs from heights taller than the canvas shows, followed to the ground.
TallNext ==
    \/ Mount
    \/ HandlesLeft(MaxTallTimerId) /\ startSimulation
    \/ simulationState.isRunning /\ stopSimulation
    \/ restartSimulation
    \/ \E id \in DOMAIN tickTimers : Tick(id)
    \/ \E id \in DOMAIN bounceTimers : Bounce(id)
    \/ \E v \in Velocities : SetInitialVelocity(v)
    \/ \E h \in Heights \cup TallHeights : SetInitialHeight(h)
    \/ \E m \in Masses : SetMass(m)

TallSpec == Init /\ [][TallNext]_vars

\* Timers that keep firing: the parameters are chosen before the first start,
\* then start, stop and reset interleave with the two intervals, which the
\* event loop fires for as long as they are live.
LiveNext ==
    \/ Mount
    \/ HandlesLeft(MaxTimerId) /\ startSimulation
    \/ simulationState.isRunning /\ stopSimulation
    \/ restartSimulation
    \/ \E id \in DOMAIN tickTimers : Tick(id)
    \/ \E id \in DOMAIN bounceTimers : Bounce(id)
    \/ nextTimerId = 1 /\ \E v \in Velocities : SetInitialVelocity(v)
    \/ nextTimerId = 1 /\ \E h \in Heights : SetInitialHeight(h)
    \/ nextTimerId = 1 /\ \E m \in Masses : SetMass(m)
    \/ nextTimerId = 1 /\ \E p \in PlanetChoices : SetPlanet(p)
    \/ nextTimerId = 1 /\ \E g \in CustomGravities : SetCustomGravity(g)

TimerIds == 1 .. MaxTimerId + 1

LiveSpec ==
    /\ Init
    /\ [][LiveNext]_vars
    /\ \A id \in TimerIds : WF_vars(Tick(id)) /\ WF_vars(Bounce(id))

---------------------------------------------------------------------------
(* Properties *)

NoTickTimer == DOMAIN tickTimers = {}
NoBounceTimer == DOMAIN bounceTimers = {}

\* The height the live tick timer id computed at its latest tick.
LastHeight(id) ==
    LET c == tickTimers[id]
    IN CurrentHeight(c.initialHeight,
                     Displacement(c.initialVelocity, c.gravity, c.time))

\* C1: a tick timer that has ticked and is still live computed a height above
\* 0.001 at its latest tick; the tick that computes a height <= 0.001 leaves
\* no tick timer, intervalRef null and isRunning false, so its record is the
\* last of the run; and no record of the history has a negative height.
C1_DriverStopsAtGround ==
    /\ \A id \in DOMAIN tickTimers :
          tickTimers[id].time >= 1 => LastHeight(id) > EPSILON
    /\ (lastOp = "tick" /\ simulationState.currentHeight <= EPSILON) =>
          (NoTickTimer /\ intervalRef = Null /\ ~simulationState.isRunning)
    /\ \A i \in 1 .. Len(dataHistory) : dataHistory[i].height >= 0

C1_Witness ==
    /\ lastOp = "tick"
    /\ simulationState.currentHeight <= EPSILON
    /\ Len(dataHistory) >= 2
    /\ dataHistory[Len(dataHistory)].height = 0
    /\ NoTickTimer

\* C2: in every reachable state currentHeight = max(0, initialHeight -
\* displacement), initialHeight being the current value of the height input.
C2_HeightFollowsParameter ==
    simulationState.currentHeight =
        Max(0, initialHeight * UNIT - simulationState.displacement)

\* C3: right after stopSimulation, restartSimulation or the unmount cleanup
\* neither the tick timer nor a bounce timer is live.
C3_TimersReleased ==
    lastOp \in {"stop", "restart", "unmount"} => (NoTickTimer /\ NoBounceTimer)

\* C4: a tick timer and a bounce timer are never live in the same state.
C4_TimersExclusive == ~(~NoTickTimer /\ ~NoBounceTimer)

\* C5: right after restartSimulation the history and the trail are empty, both
\* page cursors are 1, isRunning is false, time and displacement are 0,
\* currentHeight and currentVelocity are the current parameters and ballY is
\* the initial ball position of the current height and mass.
C5_RestartResets ==
    lastOp = "restart" =>
        /\ dataHistory = <<>>
        /\ trail = <<>>
        /\ mainTableCurrentPage = 1
        /\ modalCurrentPage = 1
        /\ ~simulationState.isRunning
        /\ simulationState.time = 0
        /\ simulationState.displacement = 0
        /\ simulationState.currentHeight = initialHeight * UNIT
        /\ simulationState.currentVelocity = initialVelocity * (UNIT \div 10)
        /\ simulationState.ballY =
              Max(BallRadius(mass),
                  CANVAS_HEIGHT * UNIT - BallRadius(mass) - GroundInset * UNIT
                      - initialHeight * SCALE * UNIT)

C5_Witness ==
    /\ lastOp = "restart"
    /\ initialHeight = 1
    /\ mass = 70
    /\ initialVelocity = -10
    /\ ~NoBounceTimer
    /\ simulationState.ballY = CalculateInitialBallY(1, 70)

\* No run in progress and nothing of one recorded.
DriverIdle ==
    /\ dataHistory = <<>>
    /\ simulationState.time = 0
    /\ ~simulationState.isRunning
    /\ NoTickTimer
    /\ intervalRef = Null

\* C6: restartSimulation invoked while running leaves no tick timer, an empty
\* history and time 0, and that lasts through every step that is not a start.
C6_RestartCancelsRun ==
    [][ /\ (lastOp' = "restart" /\ simulationState.isRunning) => DriverIdle'
        /\ (DriverIdle /\ lastOp' # "start") => DriverIdle' ]_vars

C6_Witness ==
    /\ lastOp = "restart"
    /\ wasRunning
    /\ DriverIdle
    /\ nextTimerId >= 2

\* C7: startSimulation invoked while isRunning changes neither the simulation
\* state, the history, the trail, the page cursors, the parameters nor the
\* timers.
C7_StartWhileRunningNoOp ==
    [][ (lastOp' = "start" /\ simulationState.isRunning) =>
            UNCHANGED <<params, simulationState, dataHistory, trail, cursors,
                        timerVars>> ]_vars

C7_Witness ==
    /\ lastOp = "start"
    /\ wasRunning
    /\ simulationState.isRunning
    /\ simulationState.time >= 2
    /\ Cardinality(DOMAIN tickTimers) = 1

\* C8: while a run's tick timer is live the history has as many records as the
\* timer has ticked; a tick appends one record at the end and keeps the
\* others; only a start or a reset changes the history otherwise.
C8_HistoryAppendOnly ==
    /\ [](\A id \in DOMAIN tickTimers : Len(dataHistory) = tickTimers[id].time)
    /\ [][ /\ lastOp' = "tick" =>
                 /\ Len(dataHistory') = Len(dataHistory) + 1
                 /\ SubSeq(dataHistory', 1, Len(dataHistory)) = dataHistory
           /\ lastOp' \notin {"tick", "start", "restart", "mount"} =>
                 dataHistory' = dataHistory ]_vars

C8_Witness ==
    /\ lastOp = "tick"
    /\ ~simulationState.isRunning
    /\ simulationState.time = 32
    /\ Len(dataHistory) = 32
    /\ dataHistory[1].time = 10
    /\ dataHistory[32].time = 320

\* The state a ground-contact tick leaves.
GroundContact ==
    /\ lastOp = "tick"
    /\ ~simulationState.isRunning
    /\ intervalRef = Null
    /\ NoTickTimer
    /\ simulationState.currentHeight <= EPSILON
    /\ \E id \in DOMAIN bounceTimers : bounceTimers[id].bounceCount = 0

\* C9: with the timers firing, a running driver leads to ground contact (the
\* driver stopped, the tick timer cleared, currentHeight <= 0.001 and a
\* bounce timer just started) unless a stop or a reset intervenes.
C9_RunReachesGround ==
    simulationState.isRunning ~> (GroundContact \/ lastOp \in {"stop", "restart"})

C9_Witness ==
    /\ GroundContact
    /\ initialVelocity = -10
    /\ Len(dataHistory) = simulationState.time
    /\ simulationState.time >= 6

\* One step as the bounce effect allows it: a firing of a bounce timer with
\* count k sets ballY to ground level minus 10 (k even) or to ground level
\* (k odd), then counts up, or on the 6th firing clears the timer; no other
\* step touches a live bounce timer; and only a ground-contact tick starts one.
BounceStep ==
    /\ lastOp' = "bounce" =>
          \E id \in DOMAIN bounceTimers :
             LET k == bounceTimers[id].bounceCount
                 ground == CANVAS_HEIGHT * UNIT - bounceTimers[id].ballRadius
                              - GroundInset * UNIT
             IN /\ simulationState'.ballY =
                      IF k \in {0, 2, 4} THEN ground - BounceOffset * UNIT ELSE ground
                /\ IF k = BounceSteps - 1
                   THEN id \notin DOMAIN bounceTimers'
                   ELSE /\ id \in DOMAIN bounceTimers'
                        /\ bounceTimers'[id].bounceCount = k + 1
                /\ \A j \in DOMAIN bounceTimers \ {id} :
                      j \in DOMAIN bounceTimers' /\ bounceTimers'[j] = bounceTimers[j]
    /\ lastOp' # "bounce" =>
          \A j \in DOMAIN bounceTimers :
             j \in DOMAIN bounceTimers' /\ bounceTimers'[j] = bounceTimers[j]
    /\ \A j \in DOMAIN bounceTimers' \ DOMAIN bounceTimers :
          /\ lastOp' = "tick"
          /\ simulationState'.currentHeight <= EPSILON
          /\ bounceTimers'[j].bounceCount = 0

PagesOfHistory ==
    CHOOSE k \in 0 .. Len(dataHistory) :
        /\ 20 * k >= Len(dataHistory)
        /\ \A j \in 0 .. k - 1 : 20 * j < Len(dataHistory)

\* C11: in every reachable state each page cursor is 1 when the history is
\* empty and lies in 1 .. ceil(length / 20) otherwise.
C11_CursorsInRange ==
    \A cursor \in {mainTableCurrentPage, modalCurrentPage} :
        IF Len(dataHistory) = 0
        THEN cursor = 1
        ELSE cursor >= 1 /\ cursor <= PagesOfHistory

C11_Witness ==
    /\ Len(dataHistory) > 20
    /\ mainTableCurrentPage = 2
    /\ modalCurrentPage = 1
    /\ lastOp = "tick"
    /\ PagesOfHistory = 2

\* The program's state: everything but the two history variables.
programVars == <<params, simulationState, dataHistory, trail, cursors, timerVars,
                 mounted>>

\* C12: a page-change request, on either table, for a page below 1 or above
\* ceil(length / 20) changes nothing: not the requested cursor, not the other
\* cursor, not the history, not the simulation state.
C12_OutOfRangePageNoOp ==
    [][ \A page \in PageRequests :
           ( /\ page < 1 \/ page > PagesOfHistory
             /\ handleMainTablePageChange(page) \/ handleModalPageChange(page) )
           => UNCHANGED programVars ]_vars

\* With an empty history there are no pages, so the request that ran last
\* was out of range whatever page it named; here it came between a start and
\* the run's first tick.
C12_Witness ==
    /\ lastOp \in {"mainPage", "modalPage"}
    /\ Len(dataHistory) = 0
    /\ simulationState.isRunning
    /\ PagesOfHistory = 0

\* C13: a page-change request on the modal table changes neither the inline
\* table's cursor nor the history, and a request on the inline table changes
\* neither the modal cursor nor the history.
C13_CursorsIndependent ==
    [][ /\ lastOp' = "modalPage" =>
              UNCHANGED <<mainTableCurrentPage, dataHistory>>
        /\ lastOp' = "mainPage" =>
              UNCHANGED <<modalCurrentPage, dataHistory>> ]_vars

C13_Witness ==
    /\ lastOp = "modalPage"
    /\ modalCurrentPage = 2
    /\ mainTableCurrentPage = 1
    /\ Len(dataHistory) = 32

\* C14: the total number of pages is ceil(length / 20); the page of a cursor
\* p, for the two cursors and for every page of the history, holds the
\* records with the 0-based indexes (p - 1) * 20 up to but excluding
\* min(p * 20, length), in history order; page 1 starts with the first
\* record; the last page holds length mod 20 records, or 20 when the length
\* is a positive multiple of 20.
C14_PageIsSlice ==
    LET L == Len(dataHistory)
    IN /\ TotalPages(L) = PagesOfHistory
       /\ \A p \in {mainTableCurrentPage, modalCurrentPage} \cup (1 .. PagesOfHistory) :
             LET page == CurrentData(dataHistory, p)
                 first == (p - 1) * 20
                 last == IF p * 20 < L THEN p * 20 ELSE L
             IN /\ Len(page) = last - first
                /\ \A i \in 1 .. Len(page) : page[i] = dataHistory[first + i]
       /\ L > 0 =>
             /\ CurrentData(dataHistory, 1)[1] = dataHistory[1]
             /\ Len(CurrentData(dataHistory, PagesOfHistory)) =
                   IF L % 20 = 0 THEN 20 ELSE L % 20

C14_Witness ==
    /\ Len(dataHistory) = 32
    /\ modalCurrentPage = 2
    /\ mainTableCurrentPage = 1
    /\ Len(CurrentData(dataHistory, modalCurrentPage)) = 12
    /\ Len(CurrentData(dataHistory, mainTableCurrentPage)) = 20
    /\ CurrentData(dataHistory, modalCurrentPage)[1] = dataHistory[21]

\* The ball position the run of the tick closure c computed at its n-th tick.
PositionAtTick(c, n) ==
    ActualBallY(c.initialBallY, Displacement(c.initialVelocity, c.gravity, n),
                c.ballRadius)

\* C15: the trail never has more than 30 entries; while a run's tick timer is
\* live the trail holds the ball positions of the run's latest min(n, 30)
\* ticks in tick order, n being the ticks so far; and a tick puts its ball
\* position at the end, dropping the oldest entry if there were 30 already.
C15_TrailFifo ==
    /\ [](Len(trail) <= 30)
    /\ [](\A id \in DOMAIN tickTimers :
             LET c == tickTimers[id]
                 n == c.time
                 len == IF n < 30 THEN n ELSE 30
             IN /\ Len(trail) = len
                /\ \A i \in 1 .. len : trail[i] = PositionAtTick(c, n - len + i))
    /\ [][ lastOp' = "tick" =>
              trail' = IF Len(trail) < 30
                       THEN trail \o <<simulationState'.ballY>>
                       ELSE Tail(trail) \o <<simulationState'.ballY>> ]_vars

C15_Witness ==
    /\ lastOp = "tick"
    /\ simulationState.time = 32
    /\ Len(trail) = 30
    /\ trail[30] = simulationState.ballY
    /\ trail[1] < trail[2]

\* C16: right after the n-th tick of a run (n records in the history), with
\* v0, h0 and g the parameters, which no input can change during the run:
\* time is n ticks of 0.1 s, velocity = v0 + g * t,
\* displacement = v0 * t + 0.5 * g * t * t and height = max(0, h0 - displacement).
\* In 1/UNIT, with v0 in tenths, g in hundredths and t = n / 10:
\* v0 = v0 * UNIT / 10, g * t = g * n * UNIT / 1000, v0 * t = v0 * n * UNIT / 100
\* and 0.5 * g * t * t = g * n * n * UNIT / 20000.
C16_TickKinematics ==
    lastOp = "tick" =>
        LET n == Len(dataHistory)
            v0 == initialVelocity
            h0 == initialHeight
            g == IF planet = "custom" THEN customGravity ELSE PLANETS[planet]
            d == v0 * n * 200 + g * n * n
        IN /\ n >= 1
           /\ simulationState.time = n
           /\ simulationState.currentVelocity = v0 * 2000 + g * n * 20
           /\ simulationState.displacement = d
           /\ simulationState.currentHeight = IF h0 * 20000 - d > 0 THEN h0 * 20000 - d ELSE 0

\* v0 = 0, h0 = 50, g = 9.81 at t = 1.0: displacement 4.905, velocity 9.81,
\* height 45.095.
C16_Witness ==
    /\ lastOp = "tick"
    /\ initialVelocity = 0
    /\ initialHeight = 50
    /\ Gravity(planet, customGravity) = 981
    /\ simulationState.time = 10
    /\ simulationState.displacement * 1000 = 4905 * UNIT
    /\ simulationState.currentVelocity * 100 = 981 * UNIT
    /\ simulationState.currentHeight * 1000 = 45095 * UNIT

\* C17: in every reachable state, whatever velocity was typed into the
\* velocity input, time, currentHeight and displacement are not negative.
C17_StateNonNegative ==
    /\ simulationState.time >= 0
    /\ simulationState.currentHeight >= 0
    /\ simulationState.displacement >= 0

\* The closure a run started with the parameters of c but with the mass m
\* captures: the mass, and the ball radius and initial ball position it gives.
TwinClosure(c, m) ==
    [c EXCEPT !.mass = m,
              !.ballRadius = BallRadius(m),
              !.initialBallY = CalculateInitialBallY(c.initialHeight, m)]

\* Whether the n-th tick of the run of the closure c is its last.
LastTick(c, n) ==
    GroundReached(CurrentHeight(c.initialHeight,
                                Displacement(c.initialVelocity, c.gravity, n)))

\* C18: a run and its twin, the run of the same velocity, height and gravity
\* with another mass, stepped together: at every tick the record the run
\* appends agrees with the twin's record in time, height, velocity,
\* acceleration and displacement and differs in mass, and the run goes on
\* after the tick exactly if the twin does, so both have as many ticks.
C18_MassIndependent ==
    [][ lastOp' = "tick" =>
          \A id \in DOMAIN tickTimers :
             \A m \in Masses \ {tickTimers[id].mass} :
                LET c == tickTimers[id]
                    twin == TwinClosure(c, m)
                    n == c.time + 1
                    mine == dataHistory'[Len(dataHistory')]
                    other == NewData(twin, n)
                IN /\ Len(dataHistory') = n
                   /\ mine.time = other.time
                   /\ mine.height = other.height
                   /\ mine.velocity = other.velocity
                   /\ mine.acceleration = other.acceleration
                   /\ mine.displacement = other.displacement
                   /\ mine.mass = c.mass
                   /\ other.mass = m
                   /\ (id \in DOMAIN tickTimers') <=> ~LastTick(twin, n) ]_vars

\* A run of 7 kg followed to the ground, the twin of the 1 kg run.
C18_Witness ==
    /\ lastOp = "tick"
    /\ ~simulationState.isRunning
    /\ mass = 70
    /\ initialHeight = 50
    /\ Len(dataHistory) = 32
    /\ \A i \in 1 .. 32 : dataHistory[i].mass = 70

\* The fields of a text between the occurrences of the separator sep.
RECURSIVE Split(_, _)
Split(text, sep) ==
    IF \E i \in 1 .. Len(text) : text[i] = sep
    THEN LET k == CHOOSE i \in 1 .. Len(text) :
                     text[i] = sep /\ \A j \in 1 .. i - 1 : text[j] # sep
         IN <<SubSeq(text, 1, k - 1)>> \o Split(SubSeq(text, k + 1, Len(text)), sep)
    ELSE <<text>>

IsDigits(text) ==
    /\ Len(text) >= 1
    /\ \A i \in 1 .. Len(text) : \E d \in 1 .. 10 : Digits[d] = text[i]

RECURSIVE DigitsValue(_)
DigitsValue(text) ==
    IF Len(text) = 0 THEN 0
    ELSE DigitsValue(SubSeq(text, 1, Len(text) - 1)) * 10
            + (CHOOSE d \in 0 .. 9 : Digits[d + 1] = text[Len(text)])

\* The field reads as the number x / scale (scale 10 or 100) written with a
\* decimal comma: an optional sign, digits and, after a comma, at most as
\* many decimals as the scale has.
ReadsAs(field, scale, x) ==
    LET negative == Len(field) >= 1 /\ field[1] = "-"
        parts == Split(IF negative THEN Tail(field) ELSE field, ",")
        decimals == IF Len(parts) = 2 THEN Len(parts[2]) ELSE 0
        weight == IF decimals = 0 THEN scale
                  ELSE IF decimals = 1 THEN scale \div 10 ELSE scale \div 100
    IN /\ Len(parts) \in {1, 2}
       /\ \A k \in 1 .. Len(parts) : IsDigits(parts[k])
       /\ weight >= 1
       /\ LET whole == DigitsValue(parts[1]) * scale
               frac == IF Len(parts) = 2 THEN DigitsValue(parts[2]) * weight ELSE 0
           IN x = IF negative THEN -(whole + frac) ELSE whole + frac

\* C19: downloadCSV on a history of L >= 1 records produces a document of
\* L + 1 lines, each of 6 fields between semicolons: the 6 headers, then for
\* each record, in history order, its time, height, velocity, acceleration,
\* displacement and mass; on an empty history it produces no document and
\* changes no state.
C19_CsvExport ==
    /\ [](lastOp = "download" =>
            LET L == Len(dataHistory)
                doc == Download(dataHistory)
                lines == Split(doc.content, "\n")
            IN IF L = 0
               THEN ~doc.created /\ doc.content = <<>>
               ELSE /\ doc.created
                    /\ Len(lines) = L + 1
                    /\ \A k \in 1 .. Len(lines) : Len(Split(lines[k], ";")) = 6
                    /\ Split(lines[1], ";") = headers
                    /\ \A i \in 1 .. L :
                          LET fields == Split(lines[i + 1], ";")
                              row == dataHistory[i]
                          IN /\ ReadsAs(fields[1], 100, row.time)
                             /\ ReadsAs(fields[2], 100, row.height)
                             /\ ReadsAs(fields[3], 100, row.velocity)
                             /\ ReadsAs(fields[4], 100, row.acceleration)
                             /\ ReadsAs(fields[5], 100, row.displacement)
                             /\ ReadsAs(fields[6], 10, row.mass))
    /\ [][ (lastOp' = "download" /\ Len(dataHistory) = 0) =>
              UNCHANGED programVars ]_vars

\* An export of 3 records during a run: 4 lines.
C19_Witness ==
    /\ lastOp = "download"
    /\ wasRunning
    /\ Len(dataHistory) = 3
    /\ Download(dataHistory).created
    /\ Len(Split(Download(dataHistory).content, "\n")) = 4

\* C20: there is never more than one tick timer and its handle is the one in
\* intervalRef; and, for as long as the component is mounted (its state is
\* gone afterwards), isRunning is true exactly if intervalRef holds the
\* handle of a live tick timer.
C20_RunningIffTimer ==
    /\ Cardinality(DOMAIN tickTimers) <= 1
    /\ \A id \in DOMAIN tickTimers : intervalRef = id
    /\ mounted # "unmounted" =>
          (simulationState.isRunning <=>
              (intervalRef # Null /\ intervalRef \in DOMAIN tickTimers))

\* A second run, started after the first one reached the ground.
C20_Witness ==
    /\ simulationState.isRunning
    /\ intervalRef = 3
    /\ DOMAIN tickTimers = {3}
    /\ simulationState.time >= 1
    /\ lastOp = "tick"

\* C21: startSimulation invoked while not running leaves time and
\* displacement 0, the history and the trail empty, both page cursors 1 and
\* the driver running; and the tick that follows such a start or finds time
\* 0, the first of a run, leaves time 0.1 (one tick) and a history of one
\* record of time 0.1.
C21_StartBeginsFreshRun ==
    [][ /\ (lastOp' = "start" /\ ~simulationState.isRunning) =>
              /\ simulationState'.isRunning
              /\ simulationState'.time = 0
              /\ simulationState'.displacement = 0
              /\ dataHistory' = <<>>
              /\ trail' = <<>>
              /\ mainTableCurrentPage' = 1
              /\ modalCurrentPage' = 1
        /\ (lastOp' = "tick" /\ ((lastOp = "start" /\ ~wasRunning) \/ simulationState.time = 0)) =>
              /\ simulationState'.time = 1
              /\ Len(dataHistory') = 1
              /\ dataHistory'[1].time = 10 ]_vars

\* The first tick of a second run: the first run took the handle 1 and was
\* stopped before the ground (no bounce timer took the handle 2).
C21_Witness ==
    /\ lastOp = "tick"
    /\ intervalRef = 2
    /\ nextTimerId = 3
    /\ NoBounceTimer
    /\ simulationState.isRunning
    /\ simulationState.time = 1
    /\ Len(dataHistory) = 1

\* C22: stopSimulation invoked while running clears the tick timer, nulls
\* intervalRef and sets isRunning to false; time, currentHeight,
\* currentVelocity, displacement, ballY, the history, the trail and both page
\* cursors keep their values and the bounce timers are the same as before.
C22_StopOnlyStops ==
    [][ (lastOp' = "stop" /\ simulationState.isRunning) =>
            /\ ~simulationState'.isRunning
            /\ DOMAIN tickTimers' = {}
            /\ intervalRef' = Null
            /\ simulationState'.time = simulationState.time
            /\ simulationState'.currentHeight = simulationState.currentHeight
            /\ simulationState'.currentVelocity = simulationState.currentVelocity
            /\ simulationState'.displacement = simulationState.displacement
            /\ simulationState'.ballY = simulationState.ballY
            /\ UNCHANGED <<dataHistory, trail, cursors, bounceTimers, params>> ]_vars

C22_Witness ==
    /\ lastOp = "stop"
    /\ wasRunning
    /\ ~simulationState.isRunning
    /\ simulationState.time = 3
    /\ Len(dataHistory) = 3
    /\ Len(trail) = 3
    /\ NoTickTimer
    /\ NoBounceTimer

\* C23: right after every tick of a run the ball is drawn where the height
\* puts it, ballY = CANVAS_HEIGHT - ballRadius - 4 - SCALE * currentHeight,
\* and so at ground level only when currentHeight is 0.
C23_BallDrawnAtHeight ==
    lastOp = "tick" =>
        LET ground == CANVAS_HEIGHT * UNIT - BallRadius(mass) - GroundInset * UNIT
        IN /\ simulationState.ballY = ground - SCALE * simulationState.currentHeight
           /\ simulationState.ballY = ground => simulationState.currentHeight = 0

\* C24: in every reachable state ballY <= CANVAS_HEIGHT - ballRadius - 4,
\* ballRadius being min(20, 8 + 2 * mass) of the current mass parameter.
C24_BallAboveGround ==
    simulationState.ballY <= CANVAS_HEIGHT * UNIT - BallRadius(mass) - GroundInset * UNIT

====
